---- MODULE Spec2Model ----
(***************************************************************************)
(* The project/job event relay of the One Piece generator backend:         *)
(* POST /api/generate registers a project and two provider listeners, the  *)
(* listeners turn provider events into messages for the project's SSE      *)
(* subscribers, and two setTimeout timers delay the `completed` message    *)
(* (2000 ms) and the removal of the registry entry (600000 ms).            *)
(*                                                                         *)
(* Node runs one callback at a time, so every action below is one callback *)
(* run to its next await: a route handler, a provider event dispatched to  *)
(* the registered listeners, a timer callback, or the continuation of the  *)
(* await in onJob.                                                         *)
(*                                                                         *)
(* The browser client (App.tsx) starts generation sessions: each call      *)
(* posts to /api/generate, opens an EventSource on the project's progress  *)
(* stream and folds the messages into the stored session of its kind.      *)
(***************************************************************************)
EXTENDS Integers, Sequences, FiniteSets, TLC

\* ---------------------------------------------------------------- bounds
MaxEvents == 2       \* provider events emitted in one behaviour
MaxRequests == 2     \* POST /api/generate calls made in one behaviour
MaxSessions == 2     \* generation sessions the client starts in one behaviour
MaxStreamEvents == 1 \* provider events emitted while the client is watched

\* ------------------------------------------------------------- constants
COMPLETED_DELAY_MS == 2000
CLEANUP_DELAY_MS == 600000

Projects == {"P1", "P2"}          \* ids the provider assigns
Jobs == {"J1", "J2"}              \* job ids the provider events name
FirstJob == "J1"
Channels == {1, 2}                \* SSE connections, in the order they open
\* evt.progress in thousandths: 0.375, 1.4
RawProgress == {375, 1400}
\* evt.progress around the ends of [0, 1] and around a rounding tie
ProbeRaw == {-250, -1, 0, 4, 5, 374, 375, 994, 995, 1000, 1001, 1400}
NoJob == "-"
NoProgress == -1
\* evt.error of a project-level error event
ProviderError == "render failed"

NUMBER_OF_IMAGES == 16            \* numberOfImages of projects.create

\* the two stored sessions of the client: currentSession and heroSession
Kinds == {"current", "hero"}
HISTORY_KEEP == 9                 \* history.slice(0, 9)
NoStream == 0                     \* sse: null or undefined
NoError == "-"
NoSession == [id |-> 0]           \* a stored session of null
\* the session object startGeneration and startHeroGeneration store
NewSession(id) ==
    [id |-> id, images |-> <<>>, generating |-> TRUE, error |-> NoError,
     sse |-> NoStream]
\* an EventSource: the sessionId and the setter of the closure of its
\* handlers, whether close() was called on it, and how many of the messages
\* written to its connection have been dispatched to onmessage
NoEventSource == [session |-> 0, kind |-> "-", closed |-> FALSE, seen |-> 0]
EventSource(session, kind) ==
    [session |-> session, kind |-> kind, closed |-> FALSE, seen |-> 0]
Requests == 1..MaxRequests        \* generate calls, in the order they arrive
\* req.body.prompt: absent, empty, or a text
NoPrompt == "undefined"
Prompts == {NoPrompt, "", "battle scene"}
NoClient == 0
NoResponse == [status |-> 0]
\* a call of the handler.  pc: building (inside getSogniClient, awaiting the
\* import or createInstance), login (inside getSogniClient, awaiting
\* client.account.login), creating (awaiting projects.create), done;
\* client: the provider client the call holds
Request(pc, prompt, client, response) ==
    [pc |-> pc, prompt |-> prompt, client |-> client, response |-> response]

VARIABLES
    activeProjects,    \* keys of the activeProjects Map
    sseClients,        \* projectId -> set of response objects
    projectListeners,  \* projects whose debugProject is on client.projects
    jobListeners,      \* projects whose debugJob is on client.projects
    timers,            \* pending setTimeout callbacks
    lookups,           \* onJob calls suspended at await ensureJobResultUrl
    chan,              \* state of each SSE connection
    rcvd,              \* what each connection has been written
    created,           \* projects the provider has created
    nEvents,           \* provider events emitted so far
    log,               \* per project, the emitToProject calls made
    attachAt,          \* per connection, Len(log[p]) when it attached
    cleanupArmed,      \* per project, cleanup timers armed so far
    removals,          \* per project, activeProjects.delete calls executed
    terminalNotified,  \* projects with an upstream project-level completed/error
    writeFailed,       \* connections on which a res.write has thrown
    cancelled,         \* projects the cancel route has removed
    jobsNamed,         \* job ids the provider's events have named so far
    requests,          \* the POST /api/generate calls received, in order
    sogniClient,       \* the cached provider client (NoClient = null)
    instances,         \* provider clients constructed so far
    logins,            \* per constructed client, how its login step ended
    sessions,          \* per kind, the stored session (NoSession = null)
    sessionHistory,    \* the sessions completed so far, newest first
    sessionCounter,    \* sessionCounter.current
    calls,             \* per session id, the start call that made it
    es                 \* per connection, the EventSource of the client

\* what only the generate route reads and writes
requestVars == <<requests, sogniClient, instances, logins>>

\* the state of the browser client
clientVars == <<sessions, sessionHistory, sessionCounter, calls, es>>

vars == <<activeProjects, sseClients, projectListeners, jobListeners, timers,
          lookups, chan, rcvd, created, nEvents, log, attachAt,
          cleanupArmed, removals, terminalNotified, writeFailed, cancelled,
          jobsNamed, requestVars, clientVars>>

\* ---------------------------------------------------------------- helpers
Message(type, jobId, progress, src) ==
    [type |-> type, jobId |-> jobId, progress |-> progress, src |-> src]

\* a setTimeout call; src is the provider event it goes back to
Timer(kind, projectId, delay, src) ==
    [kind |-> kind, projectId |-> projectId, delay |-> delay, elapsed |-> 0,
     src |-> src]

Remaining(t) == t.delay - t.elapsed

\* the payload of a `failed` message: { type: 'failed', error: evt.error }
FailureMessage(error, src) ==
    [type |-> "failed", jobId |-> NoJob, progress |-> NoProgress, src |-> src,
     error |-> error]

IsTerminal(m) == m.type \in {"completed", "failed"}

\* clamp01 on thousandths
clamp01(x) == IF x < 0 THEN 0 ELSE IF x > 1000 THEN 1000 ELSE x

\* as RoundPercent, but truncating
RoundPercent_Floor(v) == v \div 10

\* Math.round(v * 100) for v in thousandths: floor(v/10 + 1/2)
RoundPercent(v) == (v + 5) \div 10

\* ------------------------------------------------------------------- Init
Init ==
    /\ activeProjects = {}
    /\ sseClients = [p \in Projects |-> {}]
    /\ projectListeners = {}
    /\ jobListeners = {}
    /\ timers = {}
    /\ lookups = {}
    /\ chan = [c \in Channels |-> "unused"]
    /\ rcvd = [c \in Channels |-> <<>>]
    /\ created = {}
    /\ nEvents = 0
    /\ log = [p \in Projects |-> <<>>]
    /\ attachAt = [c \in Channels |-> 0]
    /\ cleanupArmed = [p \in Projects |-> 0]
    /\ removals = [p \in Projects |-> 0]
    /\ terminalNotified = {}
    /\ writeFailed = {}
    /\ cancelled = {}
    /\ jobsNamed = {}
    /\ requests = <<>>
    /\ sogniClient = NoClient
    /\ instances = 0
    /\ logins = {}
    /\ sessions = [k \in Kinds |-> NoSession]
    /\ sessionHistory = <<>>
    /\ sessionCounter = 0
    /\ calls = <<>>
    /\ es = [c \in Channels |-> NoEventSource]

\* ------------------------------------------------------- fan-out and detach
\* emitToProject(projectId, payload): one write per response object of the
\* project; a write that throws (broken connection) is swallowed by the
\* try/catch and the response object stays in the set.
\* as emitToProject, but the loop stops after the first response object
emitToProject_FirstOnly(projectId, payload) ==
    /\ rcvd' = [c \in Channels |->
                   IF /\ c \in sseClients[projectId]
                      /\ chan[c] = "open"
                      /\ \A b \in sseClients[projectId] : c <= b
                   THEN Append(rcvd[c], payload)
                   ELSE rcvd[c]]
    /\ writeFailed' = writeFailed \cup
           {c \in sseClients[projectId] : chan[c] = "broken"}
    /\ log' = [log EXCEPT ![projectId] = Append(@, payload)]

\* as emitToProject, but without the try/catch: the first write that throws
\* ends the forEach (a Set is walked in insertion order, the order in which
\* the connections opened)
emitToProject_NoCatch(projectId, payload) ==
    /\ rcvd' = [c \in Channels |->
                   IF /\ c \in sseClients[projectId]
                      /\ chan[c] = "open"
                      /\ \A b \in sseClients[projectId] :
                             b < c => chan[b] # "broken"
                   THEN Append(rcvd[c], payload)
                   ELSE rcvd[c]]
    /\ writeFailed' = writeFailed \cup
           {c \in sseClients[projectId] :
               /\ chan[c] = "broken"
               /\ \A b \in sseClients[projectId] : b < c => chan[b] # "broken"}
    /\ log' = [log EXCEPT ![projectId] = Append(@, payload)]

\* as emitToProject, but a response object that has not been written
\* anything yet is first written what the project was broadcast before
emitToProject_Replay(projectId, payload) ==
    /\ rcvd' = [c \in Channels |->
                   IF c \in sseClients[projectId] /\ chan[c] = "open"
                   THEN IF rcvd[c] = <<>>
                        THEN Append(log[projectId], payload)
                        ELSE Append(rcvd[c], payload)
                   ELSE rcvd[c]]
    /\ writeFailed' = writeFailed \cup
           {c \in sseClients[projectId] : chan[c] = "broken"}
    /\ log' = [log EXCEPT ![projectId] = Append(@, payload)]

emitToProject(projectId, payload) ==
    /\ rcvd' = [c \in Channels |->
                   IF c \in sseClients[projectId] /\ chan[c] = "open"
                   THEN Append(rcvd[c], payload)
                   ELSE rcvd[c]]
    /\ writeFailed' = writeFailed \cup
           {c \in sseClients[projectId] : chan[c] = "broken"}
    /\ log' = [log EXCEPT ![projectId] = Append(@, payload)]

\* detach(): both listeners off, one more cleanup timer armed.  `pending` is
\* the set of timers the caller leaves behind.
\* as detach, but the cleanup delay lacks a zero
detach_ShortCleanup(projectId, src, pending) ==
    /\ projectListeners' = projectListeners \ {projectId}
    /\ jobListeners' = jobListeners \ {projectId}
    /\ timers' = pending \cup {Timer("cleanup", projectId, 60000, src)}
    /\ cleanupArmed' = [cleanupArmed EXCEPT ![projectId] = @ + 1]

\* as detach, but the cleanup timer is forgotten
detach_NoCleanup(projectId, src, pending) ==
    /\ projectListeners' = projectListeners \ {projectId}
    /\ jobListeners' = jobListeners \ {projectId}
    /\ timers' = pending
    /\ UNCHANGED cleanupArmed

\* as detach, but with removeAllListeners in place of the two off calls
detach_AllListeners(projectId, src, pending) ==
    /\ projectListeners' = {}
    /\ jobListeners' = {}
    /\ timers' = pending \cup
           {Timer("cleanup", projectId, CLEANUP_DELAY_MS, src)}
    /\ cleanupArmed' = [cleanupArmed EXCEPT ![projectId] = @ + 1]

detach(projectId, src, pending) ==
    /\ projectListeners' = projectListeners \ {projectId}
    /\ jobListeners' = jobListeners \ {projectId}
    /\ timers' = pending \cup
           {Timer("cleanup", projectId, CLEANUP_DELAY_MS, src)}
    /\ cleanupArmed' = [cleanupArmed EXCEPT ![projectId] = @ + 1]

\* as Accepts, but without the comparison of the project ids
Accepts_Any(projectId, evt) == TRUE

\* the first line of onProject and onJob: evt.projectId !== projectId
Accepts(projectId, evt) == evt.projectId = projectId

\* ------------------------------------------------------------- listeners
\* onProject of the closure of `projectId`, for an event that passed the filter
\* as onProject, but `completed` is broadcast at once, as `failed` is
onProject_NoDelay(projectId, evt) ==
    IF evt.type = "completed" THEN
        /\ emitToProject(projectId, Message("completed", NoJob, NoProgress, evt.src))
        /\ detach(projectId, evt.src, timers)
    ELSE IF evt.type = "error" THEN
        /\ emitToProject(projectId, FailureMessage(evt.error, evt.src))
        /\ detach(projectId, evt.src, timers)
    ELSE
        UNCHANGED <<timers, projectListeners, jobListeners, cleanupArmed,
                    rcvd, log, writeFailed>>

\* as onProject, but the error branch does not call detach
onProject_ErrorNoDetach(projectId, evt) ==
    IF evt.type = "completed" THEN
        /\ timers' = timers \cup
               {Timer("completed", projectId, COMPLETED_DELAY_MS, evt.src)}
        /\ UNCHANGED <<projectListeners, jobListeners, cleanupArmed, rcvd, log,
                       writeFailed>>
    ELSE IF evt.type = "error" THEN
        /\ emitToProject(projectId, FailureMessage(evt.error, evt.src))
        /\ UNCHANGED <<timers, projectListeners, jobListeners, cleanupArmed>>
    ELSE
        UNCHANGED <<timers, projectListeners, jobListeners, cleanupArmed, rcvd,
                    log, writeFailed>>

onProject(projectId, evt) ==
    IF evt.type = "completed" THEN
        /\ timers' = timers \cup
               {Timer("completed", projectId, COMPLETED_DELAY_MS, evt.src)}
        /\ UNCHANGED <<projectListeners, jobListeners, cleanupArmed, rcvd,
                       log, writeFailed>>
    ELSE IF evt.type = "error" THEN
        /\ emitToProject(projectId, FailureMessage(evt.error, evt.src))
        /\ detach(projectId, evt.src, timers)
    ELSE
        UNCHANGED <<timers, projectListeners, jobListeners, cleanupArmed,
                    rcvd, log, writeFailed>>

\* onJob of the closure of `projectId`, up to its await
onJob(projectId, evt) ==
    IF evt.type = "progress" THEN
        /\ emitToProject(projectId,
               Message("progress", evt.jobId,
                       RoundPercent(clamp01(evt.progress)), evt.src))
        /\ UNCHANGED lookups
    ELSE IF evt.type = "completed" THEN
        \* suspended at the await; `subs` are the subscribers attached now
        /\ lookups' = lookups \cup
               {[projectId |-> projectId, jobId |-> evt.jobId, src |-> evt.src,
                 subs |-> {c \in sseClients[projectId] : chan[c] = "open"}]}
        /\ UNCHANGED <<rcvd, log, writeFailed>>
    ELSE
        UNCHANGED <<lookups, rcvd, log, writeFailed>>

\* onJob after the await: ensureJobResultUrl has returned the result URL
onJobResume(l) ==
    /\ emitToProject(l.projectId,
           Message("jobCompleted", l.jobId, NoProgress, l.src))
    /\ lookups' = lookups \ {l}

\* the callback of setTimeout(..., 2000) in onProject
completedTimeout(projectId, src, pending) ==
    /\ emitToProject(projectId, Message("completed", NoJob, NoProgress, src))
    /\ detach(projectId, src, pending)

\* the callback of setTimeout(..., 600000) in detach
cleanupTimeout(projectId, pending) ==
    /\ activeProjects' = activeProjects \ {projectId}
    /\ removals' = [removals EXCEPT ![projectId] = @ + 1]
    /\ timers' = pending

\* --------------------------------------------------------------- actions
\* the id the provider assigns to the next project it creates
NextProjectId == IF "P1" \in created THEN "P2" ELSE "P1"

\* the handler after client.projects.create has resolved: the registry
\* entry is set and both listeners are registered before the next await
register(projectId) ==
    /\ activeProjects' = activeProjects \cup {projectId}
    /\ projectListeners' = projectListeners \cup {projectId}
    /\ jobListeners' = jobListeners \cup {projectId}

\* POST /api/generate from the point where client.projects.create has
\* resolved with project id p: registry entry, response, listeners.
Generate(p) ==
    /\ p \notin created
    /\ p = NextProjectId
    /\ created' = created \cup {p}
    /\ register(p)
    /\ UNCHANGED <<sseClients, timers, lookups, chan, rcvd, nEvents, log,
                   attachAt, cleanupArmed, removals, terminalNotified,
                   writeFailed, cancelled, jobsNamed, requestVars, clientVars>>

\* ------------------------------------------------- POST /api/generate
\* as Falsy, but an empty prompt passes
Falsy_OnlyUndefined(prompt) == prompt = NoPrompt

\* !prompt
Falsy(prompt) == prompt \in {NoPrompt, ""}

JobId(i) == "J" \o ToString(i)

\* project.jobs of the project the provider creates for numberOfImages: n
ProviderJobs(n) == [i \in 1..n |-> JobId(i)]

\* as JobEntries, but counting from one
JobEntries_OneBased(jobs) ==
    [i \in DOMAIN jobs |-> [id |-> jobs[i], index |-> i]]

\* project.jobs.map((j, i) => ({ id: j.id, index: i }))
JobEntries(jobs) ==
    [i \in DOMAIN jobs |-> [id |-> jobs[i], index |-> i - 1]]

\* res.status(status).json(body) ends the request
Respond(r, response) ==
    requests' = [requests EXCEPT ![r].pc = "done", ![r].response = response]

\* as generateCatch, but with the status of the validation error
generateCatch_BadRequest(r) ==
    Respond(r, [status |-> 400, error |-> "Generation failed"])

\* the catch block of the handler
generateCatch(r) ==
    Respond(r, [status |-> 500, error |-> "Generation failed"])

\* The handler from its start to its first await that suspends.  Without a
\* prompt it answers 400.  Otherwise it calls getSogniClient: with a cached
\* client the handler goes on to call projects.create with it, without one
\* getSogniClient starts to build one.
PostGenerate(r, prompt) ==
    /\ r = Len(requests) + 1
    /\ requests' = Append(requests,
           IF Falsy(prompt) THEN
               Request("done", prompt, NoClient,
                       [status |-> 400, error |-> "Missing prompt"])
           ELSE IF sogniClient # NoClient THEN
               Request("creating", prompt, sogniClient, NoResponse)
           ELSE
               Request("building", prompt, NoClient, NoResponse))
    /\ UNCHANGED <<activeProjects, sseClients, projectListeners, jobListeners,
                   timers, lookups, chan, rcvd, created, nEvents, log,
                   attachAt, cleanupArmed, removals, terminalNotified,
                   writeFailed, cancelled, jobsNamed, sogniClient, instances,
                   logins, clientVars>>

\* as afterLogin, but without the try/catch around the login: a rejected
\* login rejects getSogniClient, nothing is cached, the handler's catch
\* answers
afterLogin_NoCatch(r, client, outcome) ==
    /\ logins' = logins \cup {[client |-> client, outcome |-> outcome]}
    /\ IF outcome = "rejected"
       THEN /\ generateCatch(r)
            /\ UNCHANGED sogniClient
       ELSE /\ sogniClient' = client
            /\ requests' = [requests EXCEPT ![r].pc = "creating",
                                            ![r].client = client]

\* getSogniClient past its login step, which ended with outcome: "ok" (logged
\* in), "none" (no credentials configured, demo mode is warned about) or
\* "rejected" (client.account.login threw, the catch logs it).  All three
\* fall through to sogniClient = client; return client, and the handler goes
\* on to call projects.create with it.
afterLogin(r, client, outcome) ==
    /\ logins' = logins \cup {[client |-> client, outcome |-> outcome]}
    /\ sogniClient' = client
    /\ requests' = [requests EXCEPT ![r].pc = "creating",
                                    ![r].client = client]

\* SogniClient.createInstance resolves with a new client.  With credentials
\* configured getSogniClient awaits client.account.login, without them it
\* goes straight on.
InstanceCreated(r, credentials) ==
    /\ r \in DOMAIN requests
    /\ requests[r].pc = "building"
    /\ instances' = instances + 1
    /\ IF credentials
       THEN /\ requests' = [requests EXCEPT ![r].pc = "login",
                                            ![r].client = instances + 1]
            /\ UNCHANGED <<sogniClient, logins>>
       ELSE afterLogin(r, instances + 1, "none")
    /\ UNCHANGED <<activeProjects, sseClients, projectListeners, jobListeners,
                   timers, lookups, chan, rcvd, created, nEvents, log,
                   attachAt, cleanupArmed, removals, terminalNotified,
                   writeFailed, cancelled, jobsNamed, clientVars>>

\* client.account.login settles: it resolves (ok) or throws
LoginSettled(r, ok) ==
    /\ r \in DOMAIN requests
    /\ requests[r].pc = "login"
    /\ afterLogin(r, requests[r].client, IF ok THEN "ok" ELSE "rejected")
    /\ UNCHANGED <<activeProjects, sseClients, projectListeners, jobListeners,
                   timers, lookups, chan, rcvd, created, nEvents, log,
                   attachAt, cleanupArmed, removals, terminalNotified,
                   writeFailed, cancelled, jobsNamed, instances, clientVars>>

\* the import or createInstance inside getSogniClient rejects
ClientFails(r) ==
    /\ r \in DOMAIN requests
    /\ requests[r].pc = "building"
    /\ generateCatch(r)
    /\ UNCHANGED <<activeProjects, sseClients, projectListeners, jobListeners,
                   timers, lookups, chan, rcvd, created, nEvents, log,
                   attachAt, cleanupArmed, removals, terminalNotified,
                   writeFailed, cancelled, jobsNamed, sogniClient, instances,
                   logins, clientVars>>

\* projects.create resolves with project p: registry entry, response,
\* listeners
CreateResolved(r, p) ==
    /\ r \in DOMAIN requests
    /\ requests[r].pc = "creating"
    /\ p \notin created
    /\ p = NextProjectId
    /\ created' = created \cup {p}
    /\ register(p)
    /\ Respond(r, [status |-> 200, projectId |-> p,
                   jobs |-> JobEntries(ProviderJobs(NUMBER_OF_IMAGES))])
    /\ UNCHANGED <<sseClients, timers, lookups, chan, rcvd, nEvents, log,
                   attachAt, cleanupArmed, removals, terminalNotified,
                   writeFailed, cancelled, jobsNamed, sogniClient, instances,
                   logins, clientVars>>

\* projects.create rejects
CreateFails(r) ==
    /\ r \in DOMAIN requests
    /\ requests[r].pc = "creating"
    /\ generateCatch(r)
    /\ UNCHANGED <<activeProjects, sseClients, projectListeners, jobListeners,
                   timers, lookups, chan, rcvd, created, nEvents, log,
                   attachAt, cleanupArmed, removals, terminalNotified,
                   writeFailed, cancelled, jobsNamed, sogniClient, instances,
                   logins, clientVars>>

\* GET /api/progress/:projectId with the id of a generate response: the
\* response object joins the project's set
Attach(c, p) ==
    /\ chan[c] = "unused"
    /\ \A b \in Channels : b < c => chan[b] # "unused"
    /\ p \in created
    /\ chan' = [chan EXCEPT ![c] = "open"]
    /\ sseClients' = [sseClients EXCEPT ![p] = @ \cup {c}]
    /\ attachAt' = [attachAt EXCEPT ![c] = Len(log[p])]
    /\ UNCHANGED <<activeProjects, projectListeners, jobListeners, timers,
                   lookups, rcvd, created, nEvents, log, cleanupArmed,
                   removals, terminalNotified, writeFailed, cancelled,
                   jobsNamed, requestVars, clientVars>>

\* the connection drops: from now on res.write throws, and the subscriber
\* is gone (what it had been written is forgotten with it)
Break(c) ==
    /\ chan[c] = "open"
    /\ chan' = [chan EXCEPT ![c] = "broken"]
    /\ rcvd' = [rcvd EXCEPT ![c] = <<>>]
    /\ attachAt' = [attachAt EXCEPT ![c] = 0]
    /\ UNCHANGED <<activeProjects, sseClients, projectListeners, jobListeners,
                   timers, lookups, created, nEvents, log, cleanupArmed,
                   removals, terminalNotified, writeFailed, cancelled,
                   jobsNamed, requestVars, clientVars>>

\* the close handler of the dropped connection: the response object leaves
\* the set
Close(c) ==
    /\ chan[c] = "broken"
    /\ chan' = [chan EXCEPT ![c] = "closed"]
    /\ sseClients' = [p \in Projects |-> sseClients[p] \ {c}]
    /\ writeFailed' = writeFailed \ {c}
    /\ UNCHANGED <<activeProjects, projectListeners, jobListeners, timers,
                   lookups, rcvd, created, nEvents, log, attachAt,
                   cleanupArmed, removals, terminalNotified, cancelled,
                   jobsNamed, requestVars, clientVars>>

\* GET /api/cancel/:projectId for a project in the registry: the entry is
\* removed at once.  detach keeps no handle of the timer it arms, so the
\* route has nothing to pass to clearTimeout and the pending timers stay.
\* `cancelled` notes the cleanup timers of the project pending at this
\* moment, by the provider event they go back to.
Cancel(p) ==
    /\ p \in activeProjects
    /\ activeProjects' = activeProjects \ {p}
    /\ cancelled' = cancelled \cup
           {[projectId |-> p,
             pending |-> {t.src : t \in {u \in timers :
                              u.kind = "cleanup" /\ u.projectId = p}}]}
    /\ UNCHANGED <<sseClients, projectListeners, jobListeners, timers,
                   lookups, chan, rcvd, created, nEvents, log, attachAt,
                   cleanupArmed, removals, terminalNotified, writeFailed,
                   jobsNamed, requestVars, clientVars>>

\* ---------------------------------------------------- the browser client
Min(a, b) == IF a <= b THEN a ELSE b

\* as onmessage, but without the comparison of the session ids
onmessage_NoIdCheck(prev, history, kind, sessionId, data, hasUrl) ==
    IF prev = NoSession THEN
        [session |-> prev, history |-> history, close |-> FALSE]
    ELSE IF data.type = "jobCompleted" /\ hasUrl THEN
        [session |-> [prev EXCEPT !.images = Append(@, data.jobId)],
         history |-> history, close |-> FALSE]
    ELSE IF data.type = "completed" THEN
        [session |-> [prev EXCEPT !.generating = FALSE, !.sse = NoStream],
         history |-> IF kind = "current"
                     THEN <<prev>> \o
                          SubSeq(history, 1, Min(HISTORY_KEEP, Len(history)))
                     ELSE history,
         close |-> TRUE]
    ELSE
        [session |-> prev, history |-> history, close |-> FALSE]

\* es.onmessage of the start call of session sessionId, of either kind: the
\* updater it passes to the setter of its kind, applied to the stored
\* session prev.  The result tells the new stored session, the new history
\* (only startGeneration pushes to it) and whether es.close() was called.
\* hasUrl: data.job?.resultUrl is truthy.
onmessage(prev, history, kind, sessionId, data, hasUrl) ==
    IF prev = NoSession \/ prev.id # sessionId THEN
        [session |-> prev, history |-> history, close |-> FALSE]
    ELSE IF data.type = "jobCompleted" /\ hasUrl THEN
        [session |-> [prev EXCEPT !.images = Append(@, data.jobId)],
         history |-> history, close |-> FALSE]
    ELSE IF data.type = "completed" THEN
        [session |-> [prev EXCEPT !.generating = FALSE, !.sse = NoStream],
         history |-> IF kind = "current"
                     THEN <<prev>> \o
                          SubSeq(history, 1, Min(HISTORY_KEEP, Len(history)))
                     ELSE history,
         close |-> TRUE]
    ELSE
        [session |-> prev, history |-> history, close |-> FALSE]

\* es.close() on the EventSource of connection c (nothing for null, or for
\* one closed before): the connection is gone, as in Break
esClose(c) ==
    IF c # NoStream /\ ~es[c].closed THEN
        /\ es' = [es EXCEPT ![c].closed = TRUE, ![c].seen = 0]
        /\ chan' = [chan EXCEPT ![c] = "broken"]
        /\ rcvd' = [rcvd EXCEPT ![c] = <<>>]
        /\ attachAt' = [attachAt EXCEPT ![c] = 0]
    ELSE
        UNCHANGED <<es, chan, rcvd, attachAt>>

\* the catch block of a start call, and es.onerror: whatever session is
\* stored stops generating and shows the error
endWithError(kind, error) ==
    sessions' = [sessions EXCEPT ![kind] =
                    IF @ = NoSession THEN @
                    ELSE [@ EXCEPT !.generating = FALSE, !.error = error]]

\* startGeneration / startHeroGeneration up to the await of fetch: the
\* EventSource of the stored session is closed, a new session is stored
StartGeneration(kind) ==
    /\ sessionCounter < MaxSessions
    /\ esClose(IF sessions[kind] = NoSession THEN NoStream
               ELSE sessions[kind].sse)
    /\ sessionCounter' = sessionCounter + 1
    /\ sessions' = [sessions EXCEPT ![kind] = NewSession(sessionCounter + 1)]
    /\ calls' = Append(calls, [kind |-> kind, pc |-> "fetching",
                               projectId |-> "-"])
    /\ UNCHANGED <<activeProjects, sseClients, projectListeners, jobListeners,
                   timers, lookups, created, nEvents, log, cleanupArmed,
                   removals, terminalNotified, writeFailed, cancelled,
                   jobsNamed, requestVars, sessionHistory>>

\* the relay accepts the POST of the start call of session s and answers
\* with the id of the new project
FetchOk(s, p) ==
    /\ s \in DOMAIN calls
    /\ calls[s].pc = "fetching"
    /\ p \notin created
    /\ p = NextProjectId
    /\ created' = created \cup {p}
    /\ register(p)
    /\ calls' = [calls EXCEPT ![s].pc = "responded", ![s].projectId = p]
    /\ UNCHANGED <<sseClients, timers, lookups, chan, rcvd, nEvents, log,
                   attachAt, cleanupArmed, removals, terminalNotified,
                   writeFailed, cancelled, jobsNamed, requestVars, sessions,
                   sessionHistory, sessionCounter, es>>

\* fetch rejects or the answer is not ok: the catch block
FetchFails(s) ==
    /\ s \in DOMAIN calls
    /\ calls[s].pc = "fetching"
    /\ endWithError(calls[s].kind, "HTTP")
    /\ calls' = [calls EXCEPT ![s].pc = "failed"]
    /\ UNCHANGED <<activeProjects, sseClients, projectListeners, jobListeners,
                   timers, lookups, chan, rcvd, created, nEvents, log,
                   attachAt, cleanupArmed, removals, terminalNotified,
                   writeFailed, cancelled, jobsNamed, requestVars,
                   sessionHistory, sessionCounter, es>>

\* the start call of session s after resp.json(): the EventSource is made
\* on the next connection c, the relay adds it to the project's set, the
\* handlers are set, and the EventSource is put into the stored session
OpenStream(s, c) ==
    /\ s \in DOMAIN calls
    /\ calls[s].pc = "responded"
    /\ chan[c] = "unused"
    /\ \A b \in Channels : b < c => chan[b] # "unused"
    /\ chan' = [chan EXCEPT ![c] = "open"]
    /\ sseClients' = [sseClients EXCEPT ![calls[s].projectId] = @ \cup {c}]
    /\ attachAt' = [attachAt EXCEPT ![c] = Len(log[calls[s].projectId])]
    /\ es' = [es EXCEPT ![c] = EventSource(s, calls[s].kind)]
    /\ sessions' = [sessions EXCEPT ![calls[s].kind] =
                       IF @ = NoSession THEN @ ELSE [@ EXCEPT !.sse = c]]
    /\ calls' = [calls EXCEPT ![s].pc = "streaming"]
    /\ UNCHANGED <<activeProjects, projectListeners, jobListeners, timers,
                   lookups, rcvd, created, nEvents, log, cleanupArmed,
                   removals, terminalNotified, writeFailed, cancelled,
                   jobsNamed, requestVars, sessionHistory, sessionCounter>>

\* the next message written to connection c is dispatched to es.onmessage.
\* hasUrl: whether the job of a jobCompleted message carries a result URL
\* (what ensureJobResultUrl returned)
Deliver(c, hasUrl) ==
    /\ es[c].session # 0
    /\ ~es[c].closed
    /\ es[c].seen < Len(rcvd[c])
    /\ LET kind == es[c].kind
           out == onmessage(sessions[kind], sessionHistory, kind,
                            es[c].session, rcvd[c][es[c].seen + 1], hasUrl)
       IN  /\ sessions' = [sessions EXCEPT ![kind] = out.session]
           /\ sessionHistory' = out.history
           /\ IF out.close
              THEN esClose(c)
              ELSE /\ es' = [es EXCEPT ![c].seen = @ + 1]
                   /\ UNCHANGED <<chan, rcvd, attachAt>>
    /\ UNCHANGED <<activeProjects, sseClients, projectListeners, jobListeners,
                   timers, lookups, created, nEvents, log, cleanupArmed,
                   removals, terminalNotified, writeFailed, cancelled,
                   jobsNamed, requestVars, sessionCounter, calls>>

\* the connection of an EventSource fails: es.onerror
StreamError(c) ==
    /\ es[c].session # 0
    /\ ~es[c].closed
    /\ esClose(c)
    /\ endWithError(es[c].kind, "Connection error")
    /\ UNCHANGED <<activeProjects, sseClients, projectListeners, jobListeners,
                   timers, lookups, created, nEvents, log, cleanupArmed,
                   removals, terminalNotified, writeFailed, cancelled,
                   jobsNamed, requestVars, sessionHistory, sessionCounter,
                   calls>>

ProjectEvent(q, type) ==
    [projectId |-> q, type |-> type, src |-> nEvents + 1,
     error |-> IF type = "error" THEN ProviderError ELSE "-"]

JobEvent(q, j, type, progress) ==
    [projectId |-> q, jobId |-> j, type |-> type, progress |-> progress,
     src |-> nEvents + 1]

\* client.projects emits a 'project' event: every registered debugProject
\* is called, each calls its onProject
EmitProject(q, type) ==
    /\ q \in created
    /\ nEvents < MaxEvents
    /\ nEvents' = nEvents + 1
    /\ terminalNotified' = IF type \in {"completed", "error"}
                           THEN terminalNotified \cup {q} ELSE terminalNotified
    /\ LET evt == ProjectEvent(q, type)
           hit == {p \in projectListeners : Accepts(p, evt)}
       IN  IF hit = {}
           THEN UNCHANGED <<timers, projectListeners, jobListeners,
                            cleanupArmed, rcvd, log, writeFailed>>
           ELSE \E p \in hit : onProject(p, evt)
    /\ UNCHANGED <<activeProjects, sseClients, lookups, chan, created,
                   attachAt, removals, cancelled, jobsNamed, requestVars,
                   clientVars>>

EmitProjectCompleted(q) == EmitProject(q, "completed")
EmitProjectError(q) == EmitProject(q, "error")

\* client.projects emits a 'job' event.  Job ids are only compared for
\* equality, so the first job an event names is called FirstJob.
EmitJob(q, j, type, progress) ==
    /\ q \in created
    /\ nEvents < MaxEvents
    /\ nEvents' = nEvents + 1
    /\ j = FirstJob \/ FirstJob \in jobsNamed
    /\ jobsNamed' = jobsNamed \cup {j}
    /\ LET evt == JobEvent(q, j, type, progress)
           hit == {p \in jobListeners : Accepts(p, evt)}
       IN  IF hit = {}
           THEN UNCHANGED <<lookups, rcvd, log, writeFailed>>
           ELSE \E p \in hit : onJob(p, evt)
    /\ UNCHANGED <<activeProjects, sseClients, projectListeners, jobListeners,
                   timers, chan, created, attachAt, cleanupArmed, removals,
                   terminalNotified, cancelled, requestVars, clientVars>>

EmitJobProgress(q, j, x) == EmitJob(q, j, "progress", x)
EmitJobCompleted(q, j) == EmitJob(q, j, "completed", NoProgress)

\* ensureJobResultUrl resolves and onJob continues
ResolveLookup(l) ==
    /\ l \in lookups
    /\ onJobResume(l)
    /\ UNCHANGED <<activeProjects, sseClients, projectListeners, jobListeners,
                   timers, chan, created, nEvents, attachAt, cleanupArmed,
                   removals, terminalNotified, cancelled, jobsNamed,
                   requestVars, clientVars>>

\* a timer whose delay has elapsed runs its callback
FireCompleted(t) ==
    /\ t \in timers
    /\ t.kind = "completed"
    /\ Remaining(t) <= 0
    /\ completedTimeout(t.projectId, t.src, timers \ {t})
    /\ UNCHANGED <<activeProjects, sseClients, lookups, chan, created, nEvents,
                   attachAt, removals, terminalNotified, cancelled, jobsNamed,
                   requestVars, clientVars>>

FireCleanup(t) ==
    /\ t \in timers
    /\ t.kind = "cleanup"
    /\ Remaining(t) <= 0
    /\ cleanupTimeout(t.projectId, timers \ {t})
    /\ UNCHANGED <<sseClients, projectListeners, jobListeners, lookups, chan,
                   rcvd, created, nEvents, log, attachAt, cleanupArmed,
                   terminalNotified, writeFailed, cancelled, jobsNamed,
                   requestVars, clientVars>>

\* Time passes up to the earliest deadline and never beyond it: a due timer
\* runs before a later one becomes due.
NextDeadline ==
    CHOOSE d \in {Remaining(t) : t \in timers} :
        \A t \in timers : d <= Remaining(t)

Advance ==
    /\ timers # {}
    /\ NextDeadline > 0
    /\ timers' = {[t EXCEPT !.elapsed = @ + NextDeadline] : t \in timers}
    /\ UNCHANGED <<activeProjects, sseClients, projectListeners, jobListeners,
                   lookups, chan, rcvd, created, nEvents, log, attachAt,
                   cleanupArmed, removals, terminalNotified, writeFailed,
                   cancelled, jobsNamed, requestVars, clientVars>>

Next ==
    \/ \E p \in Projects : Generate(p)
    \/ \E c \in Channels, p \in Projects : Attach(c, p)
    \/ \E c \in Channels : Break(c)
    \/ \E c \in Channels : Close(c)
    \/ \E q \in Projects : EmitProjectCompleted(q)
    \/ \E q \in Projects : EmitProjectError(q)
    \/ \E q \in Projects, j \in Jobs, x \in RawProgress : EmitJobProgress(q, j, x)
    \/ \E q \in Projects, j \in Jobs : EmitJobCompleted(q, j)
    \/ \E l \in lookups : ResolveLookup(l)
    \/ \E t \in timers : FireCompleted(t)
    \/ \E t \in timers : FireCleanup(t)
    \/ Advance

Spec == Init /\ [][Next]_vars

\* The relay without its subscribers.  Attach, Break and Close leave the
\* registry, the listeners, the timers and the suspended onJob calls as they
\* are, and no other action reads the connections except to write to them.
RelayNext ==
    \/ \E p \in Projects : Generate(p)
    \/ \E q \in Projects : EmitProjectCompleted(q)
    \/ \E q \in Projects : EmitProjectError(q)
    \/ \E q \in Projects, j \in Jobs, x \in RawProgress : EmitJobProgress(q, j, x)
    \/ \E q \in Projects, j \in Jobs : EmitJobCompleted(q, j)
    \/ \E l \in lookups : ResolveLookup(l)
    \/ \E t \in timers : FireCompleted(t)
    \/ \E t \in timers : FireCleanup(t)
    \/ Advance

\* armed timers eventually fire, and time does not stop
LiveSpec ==
    /\ Init
    /\ [][RelayNext]_vars
    /\ WF_vars(Advance)
    /\ WF_vars(\E t \in timers : FireCompleted(t))
    /\ WF_vars(\E t \in timers : FireCleanup(t))

\* The relay with subscribers whose connections stay up.
AttachNext ==
    \/ RelayNext
    \/ \E c \in Channels, p \in Projects : Attach(c, p)

AttachSpec == Init /\ [][AttachNext]_vars

\* The relay with the cancel route, without its subscribers.
CancelNext ==
    \/ RelayNext
    \/ \E p \in Projects : Cancel(p)

CancelSpec == Init /\ [][CancelNext]_vars

\* Progress events of any raw value, for the normalisation in onJob, with
\* one subscriber to receive the messages.
ProgressNext ==
    \/ \E p \in Projects : Generate(p)
    \/ \E p \in Projects : Attach(1, p)
    \/ \E q \in Projects, j \in Jobs, x \in ProbeRaw : EmitJobProgress(q, j, x)

ProgressSpec == Init /\ [][ProgressNext]_vars

\* The generate route step by step, with the error events and the cleanup
\* of the projects it registers.
ApiNext ==
    \/ \E r \in Requests, x \in Prompts : PostGenerate(r, x)
    \/ \E r \in Requests, credentials \in BOOLEAN :
           InstanceCreated(r, credentials)
    \/ \E r \in Requests, ok \in BOOLEAN : LoginSettled(r, ok)
    \/ \E r \in Requests : ClientFails(r)
    \/ \E r \in Requests, p \in Projects : CreateResolved(r, p)
    \/ \E r \in Requests : CreateFails(r)
    \/ \E q \in Projects : EmitProjectError(q)
    \/ \E t \in timers : FireCleanup(t)
    \/ Advance

ApiSpec == Init /\ [][ApiNext]_vars

\* The provider events behind the streams of the client, and the timers and
\* lookups they start.
StreamNext ==
    \/ \E q \in Projects : nEvents < MaxStreamEvents /\ EmitProjectCompleted(q)
    \/ \E q \in Projects : nEvents < MaxStreamEvents /\ EmitProjectError(q)
    \/ \E q \in Projects, j \in Jobs :
           nEvents < MaxStreamEvents /\ EmitJobCompleted(q, j)
    \/ \E l \in lookups : ResolveLookup(l)
    \/ \E t \in timers : FireCompleted(t)
    \/ \E t \in timers : FireCleanup(t)
    \/ Advance

\* The client with the relay behind it, while fetches succeed and
\* connections stay up: sessions are started, the relay answers, streams
\* deliver what the relay broadcasts.
ClientNext ==
    \/ \E k \in Kinds : StartGeneration(k)
    \/ \E s \in 1..MaxSessions, p \in Projects : FetchOk(s, p)
    \/ \E s \in 1..MaxSessions, c \in Channels : OpenStream(s, c)
    \/ \E c \in Channels, hasUrl \in BOOLEAN : Deliver(c, hasUrl)
    \/ StreamNext

ClientSpec == Init /\ [][ClientNext]_vars

\* The client with failing fetches and connections as well.
ClientLiveNext ==
    \/ ClientNext
    \/ \E s \in 1..MaxSessions : FetchFails(s)
    \/ \E c \in Channels : StreamError(c)

\* What is due happens: timers fire, time does not stop, pending lookups
\* resolve, and a message written to an open connection is dispatched.
\* Nothing obliges the user to start a session, or a fetch or a connection
\* to fail.
ClientLiveSpec ==
    /\ Init
    /\ [][ClientLiveNext]_vars
    /\ WF_vars(Advance)
    /\ WF_vars(\E t \in timers : FireCompleted(t))
    /\ WF_vars(\E t \in timers : FireCleanup(t))
    /\ WF_vars(\E l \in lookups : ResolveLookup(l))
    /\ WF_vars(\E c \in Channels, hasUrl \in BOOLEAN : Deliver(c, hasUrl))

\* ================================================================ claims
Max(a, b) == IF a >= b THEN a ELSE b

LastN(s, k) == SubSeq(s, Len(s) - k + 1, Len(s))

Terminals(p) == {i \in DOMAIN log[p] : IsTerminal(log[p][i])}

Has(s, type) == \E i \in DOMAIN s : s[i].type = type

Attached(c, p) == c \in sseClients[p] /\ chan[c] = "open"

\* p's last emitToProject call happened in this step and was of this type
Broadcasts(p, type) ==
    /\ Len(log'[p]) = Len(log[p]) + 1
    /\ log'[p][Len(log'[p])].type = type

\* C1: what an attached subscriber is written follows the order in which the
\* provider emitted the events behind it; only `completed`, which the
\* completion delay holds back on purpose, is left out of the comparison.
C1_ProviderOrder ==
    \A p \in Projects, c \in Channels :
        Attached(c, p) =>
            \A i, j \in DOMAIN rcvd[c] :
                (i < j /\ rcvd[c][i].type # "completed"
                       /\ rcvd[c][j].type # "completed")
                    => rcvd[c][i].src < rcvd[c][j].src

\* C2: two subscribers attached to one project have been written the same
\* messages, in the same order, since the later of their attach points.
C2_NoDivergence ==
    \A p \in Projects, c1, c2 \in Channels :
        (c1 # c2 /\ Attached(c1, p) /\ Attached(c2, p)) =>
            LET k == Len(log[p]) - Max(attachAt[c1], attachAt[c2])
            IN  /\ Len(rcvd[c1]) >= k
                /\ Len(rcvd[c2]) >= k
                /\ LastN(rcvd[c1], k) = LastN(rcvd[c2], k)

C2_Witness ==
    \E p \in Projects, c1, c2 \in Channels :
        /\ c1 # c2 /\ Attached(c1, p) /\ Attached(c2, p)
        /\ attachAt[c1] < attachAt[c2]
        /\ attachAt[c2] < Len(log[p])

\* C3: a step that broadcasts `completed` for p is the firing of a timer that
\* an upstream `completed` of p armed and that has run its full 2000 ms; it
\* is never the step of a provider event.
C3_CompletedOnlyAtTimer ==
    [][\A p \in Projects :
          Broadcasts(p, "completed") =>
              /\ nEvents' = nEvents
              /\ \E t \in timers :
                    /\ t \notin timers'
                    /\ t.kind = "completed"
                    /\ t.projectId = p
                    /\ t.elapsed >= 2000
                    /\ t.src = log'[p][Len(log'[p])].src]_vars

C3_Witness ==
    \E p \in Projects : Has(log[p], "completed") /\ Len(log[p]) >= 2

\* C4: `completed` is never the first message broadcast for a project.
C4_CompletedNeverFirst ==
    \A p \in Projects : log[p] # <<>> => log[p][1].type # "completed"

\* C5: a subscriber that was attached when a job's completion was reported
\* is not written the project's `completed` while that job's `jobCompleted`
\* is outstanding.  Only job completions the provider reported before it
\* reported the project's completion are held against the relay.
C5_JobCompletedBeforeCompleted ==
    \A l \in lookups, c \in Channels :
        (c \in l.subs /\ Attached(c, l.projectId)) =>
            \A i \in DOMAIN rcvd[c] :
                rcvd[c][i].type = "completed" => rcvd[c][i].src < l.src

\* C6: nothing is broadcast for a project after its terminal message.
C6_NothingAfterTerminal ==
    \A p \in Projects : \A i \in Terminals(p) : i = Len(log[p])

\* C7: at most one terminal message is broadcast for a project.
C7_AtMostOneTerminal ==
    \A p \in Projects : Cardinality(Terminals(p)) <= 1

\* C8: per project at most one cleanup timer is ever armed and the registry
\* removal runs at most once.
C8_CleanupOnce ==
    \A p \in Projects : cleanupArmed[p] <= 1 /\ removals[p] <= 1

\* C9: a registry entry disappears only in the step in which a cleanup timer
\* of that project fires, 600000 ms after it was armed.
C9_RemovedOnlyByCleanupTimer ==
    [][\A p \in Projects :
          (p \in activeProjects /\ p \notin activeProjects') =>
              \E t \in timers :
                  /\ t \notin timers'
                  /\ t.kind = "cleanup"
                  /\ t.projectId = p
                  /\ t.elapsed >= 600000]_vars

C9_Witness ==
    \E p \in Projects :
        p \in created /\ p \notin activeProjects /\ removals[p] = 1

\* C10: a project with an upstream terminal notification eventually leaves
\* the registry.
C10_EventuallyRemoved ==
    \A p \in Projects :
        (p \in terminalNotified) ~> (p \notin activeProjects)

C10_Witness ==
    \E p \in Projects :
        p \in terminalNotified /\ p \notin activeProjects /\ removals[p] >= 1

\* the cleanup timer of p armed for provider event src has not run yet
CleanupPending(p, src) ==
    \E t \in timers : t.kind = "cleanup" /\ t.projectId = p /\ t.src = src

\* C11: cancelling a project removes its registry entry at once and cancels
\* the cleanup timers already scheduled for it: a cancelled project is out
\* of the registry, and none of the cleanup timers that were pending when it
\* was cancelled has run its activeProjects.delete since.
C11_CancelSuppressesCleanup ==
    \A k \in cancelled :
        /\ k.projectId \notin activeProjects
        /\ \A src \in k.pending :
               CleanupPending(k.projectId, src) \/ removals[k.projectId] = 0

\* C12: a subscriber whose write fails does not affect the others, and the
\* failure does not reach the caller of the broadcast: every open subscriber
\* of a project has been written every message broadcast since it attached,
\* in order, whatever the state of the other connections of the project; and
\* every terminal broadcast was followed by the detach of its caller, with
\* or without subscribers.
C12_DeliveryIsolated ==
    \A p \in Projects :
        /\ \A c \in Channels :
               Attached(c, p) =>
                   rcvd[c] = SubSeq(log[p], attachAt[c] + 1, Len(log[p]))
        /\ cleanupArmed[p] = Cardinality(Terminals(p))

\* a terminal message was broadcast to two subscribers: the write to the
\* first threw, the second was written the message, and detach armed the
\* cleanup
C12_Witness ==
    \E p \in Projects, b, c \in Channels :
        /\ b < c
        /\ b \in sseClients[p] /\ b \in writeFailed
        /\ Attached(c, p)
        /\ Len(log[p]) = 1
        /\ IsTerminal(log[p][1])
        /\ rcvd[c] = log[p]
        /\ cleanupArmed[p] = 1

\* C13: a subscriber whose write failed during a broadcast has been removed
\* from the subscriber set of its project, so that no later broadcast writes
\* to it again.
C13_FailedWriteRemoves ==
    \A c \in writeFailed : \A p \in Projects : c \notin sseClients[p]

\* the message of p's last emitToProject call
LastBroadcast(p) == log'[p][Len(log'[p])]

\* C14: every progress message carries an integer percent in 0..100 whatever
\* the raw value: a progress event of raw value x (in thousandths) that
\* reaches the listener of its project is broadcast in the same step as a
\* progress message of that job whose percent is 100 for x above 1, 0 for x
\* below 0, and otherwise the integer nearest to x/10 (a tie going up).
C14_PercentNormalised ==
    [][\A q \in Projects, j \in Jobs, x \in ProbeRaw :
          (EmitJobProgress(q, j, x) /\ q \in jobListeners) =>
              /\ Broadcasts(q, "progress")
              /\ LastBroadcast(q).jobId = j
              /\ LastBroadcast(q).progress \in 0..100
              /\ x > 1000 => LastBroadcast(q).progress = 100
              /\ x < 0 => LastBroadcast(q).progress = 0
              /\ x \in 0..1000 =>
                     /\ 10 * LastBroadcast(q).progress - x <= 5
                     /\ x - 10 * LastBroadcast(q).progress < 5]_vars

\* a subscriber was written 100 and then 0 for one job
C14_Witness ==
    \E p \in Projects, c \in Channels :
        /\ Attached(c, p)
        /\ Len(rcvd[c]) = 2
        /\ rcvd[c][1].type = "progress" /\ rcvd[c][1].progress = 100
        /\ rcvd[c][2].type = "progress" /\ rcvd[c][2].progress = 0
        /\ rcvd[c][1].jobId = rcvd[c][2].jobId

\* C15: for every job, the progress percents an attached subscriber has been
\* written for that job never decrease along its stream.
C15_ProgressMonotonic ==
    \A p \in Projects, c \in Channels :
        Attached(c, p) =>
            \A i, k \in DOMAIN rcvd[c] :
                ( /\ i < k
                  /\ rcvd[c][i].type = "progress"
                  /\ rcvd[c][k].type = "progress"
                  /\ rcvd[c][i].jobId = rcvd[c][k].jobId )
                => rcvd[c][i].progress <= rcvd[c][k].progress

\* C16: on a project-level error event the `failed` message with the error
\* detail is broadcast, both listeners of the project are detached and the
\* cleanup is scheduled, all in the step of the event itself: whenever the
\* provider emits an error event for a project whose listener is registered,
\* that step broadcasts `failed` carrying evt.error to every open subscriber
\* of the project, leaves neither listener registered, and arms a fresh
\* 600000 ms cleanup timer without any other timer having run.
C16_ErrorFailsAtOnce ==
    [][\A p \in Projects :
          (EmitProjectError(p) /\ p \in projectListeners) =>
              /\ Broadcasts(p, "failed")
              /\ LastBroadcast(p).error = ProviderError
              /\ LastBroadcast(p).src = nEvents'
              /\ \A c \in Channels :
                     Attached(c, p) => rcvd'[c] = Append(rcvd[c], LastBroadcast(p))
              /\ p \notin projectListeners' /\ p \notin jobListeners'
              /\ timers \subseteq timers'
              /\ \E t \in timers' \ timers :
                     /\ t.kind = "cleanup" /\ t.projectId = p
                     /\ t.delay = CLEANUP_DELAY_MS /\ t.elapsed = 0
                     /\ t.src = nEvents']_vars

\* the state right after an error event: the subscriber has `failed` with
\* the error detail, the listeners are off, the cleanup timer has just been
\* armed
C16_Witness ==
    \E p \in Projects, c \in Channels :
        /\ Attached(c, p)
        /\ rcvd[c] # <<>>
        /\ rcvd[c][Len(rcvd[c])].type = "failed"
        /\ rcvd[c][Len(rcvd[c])].error = ProviderError
        /\ rcvd[c][Len(rcvd[c])].src = nEvents
        /\ p \notin projectListeners /\ p \notin jobListeners
        /\ \E t \in timers :
               /\ t.kind = "cleanup" /\ t.projectId = p
               /\ t.elapsed = 0 /\ t.src = nEvents

\* the provider emits an event carrying project id q
ProviderEmits(q) ==
    /\ nEvents' = nEvents + 1
    /\ \/ EmitProjectCompleted(q)
       \/ EmitProjectError(q)
       \/ \E j \in Jobs, x \in RawProgress : EmitJobProgress(q, j, x)
       \/ \E j \in Jobs : EmitJobCompleted(q, j)

\* nothing of project p changes in this step: no broadcast, no write to its
\* subscribers, its timers, listeners and suspended onJob calls as before
Untouched(p) ==
    /\ log'[p] = log[p]
    /\ \A c \in sseClients[p] : rcvd'[c] = rcvd[c]
    /\ {t \in timers' : t.projectId = p} = {t \in timers : t.projectId = p}
    /\ {l \in lookups' : l.projectId = p} = {l \in lookups : l.projectId = p}
    /\ (p \in projectListeners') = (p \in projectListeners)
    /\ (p \in jobListeners') = (p \in jobListeners)
    /\ (p \in activeProjects') = (p \in activeProjects)

\* C17: a provider event carrying project id q touches nothing of another
\* project p (no broadcast to p's subscribers, no timer of p armed, no
\* listener of p detached), and an event whose project has no listener
\* registered any more touches nothing at all.
C17_EventsStayInProject ==
    [][\A q \in Projects :
          ProviderEmits(q) =>
              /\ \A p \in Projects \ {q} : Untouched(p)
              /\ (q \notin projectListeners /\ q \notin jobListeners)
                     => Untouched(q)]_vars

\* two projects with a subscriber each; q was sent `failed` and a later job
\* event of q found no listener, while p and its subscriber saw nothing
C17_Witness ==
    \E p, q \in Projects, c, d \in Channels :
        /\ p # q
        /\ Attached(c, p) /\ Attached(d, q)
        /\ nEvents = 2
        /\ jobsNamed # {}
        /\ Len(log[q]) = 1 /\ log[q][1].type = "failed" /\ rcvd[d] = log[q]
        /\ log[p] = <<>> /\ rcvd[c] = <<>>
        /\ lookups = {}
        /\ p \in projectListeners /\ p \in jobListeners
        /\ \A t \in timers : t.projectId = q

\* what the relay keeps between requests: registry, listeners, timers,
\* subscriber sets, the cached client, and what the provider has been asked
RelayState ==
    <<activeProjects, projectListeners, jobListeners, timers, sseClients,
      lookups, created, sogniClient, instances, logins>>

\* C18: a generate request without a prompt (absent or empty) is answered
\* 400 in the step that receives it and never reaches the core: that step
\* leaves the registry, the listeners, the timers, the cached client and
\* the provider as they are, and an answered request takes no further step.
C18_MissingPromptRejected ==
    [][/\ \A r \in Requests, x \in {NoPrompt, ""} :
             PostGenerate(r, x) =>
                 /\ requests'[r].pc = "done"
                 /\ requests'[r].response.status = 400
                 /\ UNCHANGED RelayState
       /\ \A r \in DOMAIN requests :
             requests[r].pc = "done" => requests'[r] = requests[r]]_vars

\* an empty prompt was answered 400 while a project was registered and its
\* cleanup timer pending
C18_Witness ==
    \E r \in DOMAIN requests :
        /\ requests[r].pc = "done"
        /\ requests[r].prompt = ""
        /\ requests[r].response.status = 400
        /\ activeProjects # {}
        /\ timers # {}

\* C19: when getSogniClient or projects.create fails, the request is
\* answered 500 and the relay state is unchanged: the failing step leaves
\* the registry, the listeners, the timers and the cached client as they
\* are, and every registry entry and every listener belongs to a request
\* that was answered 200.
C19_ProviderFailureIs500 ==
    /\ [](\A p \in activeProjects \cup projectListeners \cup jobListeners :
            \E r \in DOMAIN requests :
                /\ requests[r].response.status = 200
                /\ requests[r].response.projectId = p)
    /\ [][\A r \in Requests :
             (ClientFails(r) \/ CreateFails(r)) =>
                 /\ requests'[r].pc = "done"
                 /\ requests'[r].response.status = 500
                 /\ UNCHANGED RelayState]_vars

\* one request failed inside getSogniClient and one at projects.create;
\* both were answered 500 and nothing is registered
C19_Witness ==
    \E r, k \in DOMAIN requests :
        /\ requests[r].response.status = 500
        /\ requests[r].client = NoClient
        /\ requests[k].response.status = 500
        /\ requests[k].client # NoClient
        /\ activeProjects = {} /\ projectListeners = {} /\ jobListeners = {}

\* C20: a successful generate request is answered with the id the provider
\* assigned to the new project and exactly 16 job entries, the i-th of them
\* (counting from 0) carrying index i and the id of the i-th job of the
\* provider's list, and the project is in the registry in the state in
\* which the response is sent.
C20_ResponseListsJobs ==
    [][\A r \in Requests, p \in Projects :
          CreateResolved(r, p) =>
              /\ requests'[r].response.status = 200
              /\ requests'[r].response.projectId = p
              /\ created' \ created = {p}
              /\ Len(requests'[r].response.jobs) = 16
              /\ \A i \in 0..15 :
                     /\ requests'[r].response.jobs[i + 1].index = i
                     /\ requests'[r].response.jobs[i + 1].id
                            = ProviderJobs(16)[i + 1]
              /\ p \in activeProjects']_vars

\* a request answered 200 with 16 entries, the last with index 15, its
\* project in the registry
C20_Witness ==
    \E r \in DOMAIN requests :
        /\ requests[r].response.status = 200
        /\ Len(requests[r].response.jobs) = 16
        /\ requests[r].response.jobs[16].index = 15
        /\ requests[r].response.projectId \in activeProjects

\* C21: the provider client is a singleton: at most one client instance is
\* ever constructed, and every request that holds a client holds the same
\* one, however the generate requests interleave.
C21_SingletonClient ==
    /\ instances <= 1
    /\ \A r, k \in DOMAIN requests :
           (requests[r].client # NoClient /\ requests[k].client # NoClient)
               => requests[r].client = requests[k].client


\* C24: absent or rejected credentials never make the client construction
\* fail: the step in which getSogniClient finds no credentials, or in which
\* the login throws, caches the constructed client and hands it to the
\* handler, which goes on to projects.create without having answered.
C24_LoginFailureTolerated ==
    [][\A r \in DOMAIN requests :
          (InstanceCreated(r, FALSE) \/ LoginSettled(r, FALSE))
              => /\ requests'[r].client # NoClient
                 /\ sogniClient' = requests'[r].client
                 /\ requests'[r].pc = "creating"
                 /\ requests'[r].response = NoResponse
                 /\ instances' >= sogniClient']_vars

\* one request got its client without credentials and another after a
\* rejected login, and both went on to be accepted
C24_Witness ==
    \E l, m \in logins :
        /\ l.outcome = "rejected"
        /\ m.outcome = "none"
        /\ \E r, k \in DOMAIN requests :
               /\ requests[r].client = l.client
               /\ requests[k].client = m.client
               /\ requests[r].response.status = 200
               /\ requests[k].response.status = 200

\* C22: there is no replay: a subscriber is written nothing when it
\* attaches, and whatever it is written afterwards is the one message being
\* broadcast to its project in that very step, so nothing broadcast before
\* its attach point ever reaches it.
C22_NoReplay ==
    [][\A c \in Channels, p \in Projects :
          /\ Attach(c, p) => rcvd'[c] = <<>>
          /\ (c \in sseClients[p] /\ rcvd'[c] # rcvd[c] /\ chan'[c] = "open")
                 => /\ Len(log'[p]) = Len(log[p]) + 1
                    /\ rcvd'[c] = Append(rcvd[c], log'[p][Len(log'[p])])]_vars

\* a subscriber attached after a first broadcast of its project and has been
\* written the next one, and only that
C22_Witness ==
    \E c \in Channels, p \in Projects :
        /\ Attached(c, p)
        /\ attachAt[c] >= 1
        /\ Len(log[p]) = attachAt[c] + 1
        /\ rcvd[c] = <<log[p][Len(log[p])]>>
        /\ log[p][1] # log[p][Len(log[p])]

\* C23: when the delayed cleanup of a project executes, it removes both the
\* project's registry entry and its subscriber-set entry.
C23_CleanupRemovesBoth ==
    [][\A p \in Projects :
          removals'[p] = removals[p] + 1
              => /\ p \notin activeProjects'
                 /\ sseClients'[p] = {}]_vars

\* C25: listener registrations are balanced per project: the projects with a
\* registered project listener are those with a registered job listener, and
\* they are exactly the accepted projects whose detach has not run yet,
\* however often the detach of another project has run.
C25_ListenersBalanced ==
    /\ projectListeners = jobListeners
    /\ projectListeners = {p \in created : cleanupArmed[p] = 0}

\* the detach of one project has run twice while the other project, accepted
\* and not yet terminated, still has both of its listeners
C25_Witness ==
    \E p, q \in created :
        /\ p # q
        /\ cleanupArmed[p] = 2
        /\ cleanupArmed[q] = 0
        /\ q \in projectListeners /\ q \in jobListeners
        /\ p \notin projectListeners /\ p \notin jobListeners

\* a terminal message has been written to the open stream of the session
\* that is the stored one of its kind
TerminalWritten(c) ==
    /\ es[c].session # 0
    /\ ~es[c].closed
    /\ sessions[es[c].kind].id = es[c].session
    /\ \E i \in DOMAIN rcvd[c] : IsTerminal(rcvd[c][i])

\* the stream is closed and its session is not left generating
Ended(c) ==
    /\ es[c].closed
    /\ \/ sessions[es[c].kind].id # es[c].session
       \/ ~sessions[es[c].kind].generating

\* C26: whenever the relay has broadcast a terminal message (completed or
\* failed) to the open stream of the client's stored session, the session
\* eventually stops generating and its EventSource is closed.
C26_TerminalEndsSession ==
    \A c \in Channels : TerminalWritten(c) ~> Ended(c)

\* C27: a stream message of a superseded session (the stored session of the
\* handler's kind has another id than the handler's sessionId) changes
\* nothing: the stored sessions, with their images and generating flags, and
\* the history stay as they are.
C27_SupersededIgnored ==
    [][\A c \in Channels :
          (/\ \E hasUrl \in BOOLEAN : Deliver(c, hasUrl)
           /\ sessions[es[c].kind].id # es[c].session)
              => /\ sessions' = sessions
                 /\ sessionHistory' = sessionHistory
                 /\ ~es'[c].closed]_vars

\* `completed` was dispatched on the stream of a superseded session (the
\* stream is still open, which it is not after a `completed` of the stored
\* session), and the stored session is as its start call made it
C27_Witness ==
    \E c \in Channels :
        /\ es[c].session # 0
        /\ ~es[c].closed
        /\ es[c].seen >= 1
        /\ rcvd[c][es[c].seen].type = "completed"
        /\ sessions[es[c].kind].id > es[c].session
        /\ sessions[es[c].kind].generating
        /\ sessions[es[c].kind].images = <<>>
        /\ sessionHistory = <<>>

====
